---- MODULE Spec2Model ----
(***************************************************************************)
(* CoreAgent (src/core_agent.py): the scheduler that feeds console         *)
(* snapshots to BootTask, SaveTask and ArenaTask, with the shared          *)
(* AgentContext, the MemoryManager's request_save flag and the commands    *)
(* sent to the input sink.                                                 *)
(*                                                                         *)
(* A snapshot is the sequence of its lines (ConsoleManager.capture_buffer  *)
(* joins the right-stripped console rows with a newline).  A line is one   *)
(* of the texts below; the patterns of console_patterns.py are evaluated   *)
(* on these lines.                                                         *)
(***************************************************************************)
EXTENDS Integers, Sequences, FiniteSets, TLC

\* ------------------------------------------------------------------ lines
LMain     == "Welcome to Warsim .. 1) Start a New Game"
LLoad     == "Savegames .. enter the name of the save file"
LSaveFile == "llmsave"
LPak      == "Press any key to continue"
LKingdom  == "KINGDOM MENU"
LExtras   == "13) Extras"
LCeremony == "crowning ceremony"
LCroll    == "old croll"
LSetup    == "automate the automation for me!"
LAlready  == "already recruiting automatically"
LSaveGame == "1) Save Game"
LSaveName == "Save Name"
LFight    == "  Knight vs. Bandit"
LBlank    == ""
LStory    == "You were born a peasant"

\* The snapshots the screen source produces in this model.
Screens ==
  { <<>>,
    <<LMain>>, <<LLoad>>, <<LLoad, LSaveFile>>,
    <<LPak>>, <<LPak, LKingdom>>,
    <<LKingdom>>, <<LKingdom, LExtras>>, <<LExtras>>,
    <<LCeremony>>, <<LCroll>>, <<LSetup>>, <<LAlready>>,
    <<LSaveGame>>, <<LSaveName>>,
    <<LFight>>, <<LStory, LFight>>, <<LBlank, LFight>>, <<LFight, LKingdom>> }

\* AgentContext.save_name, the default "LLMSave"
save_name == "LLMSave"

\* ------------------------------------------------------- console_patterns
Has(txt, line) == \E i \in 1..Len(txt) : txt[i] = line

MAIN_MENU_RE(txt)     == Has(txt, LMain)
LOAD_MENU_RE(txt)     == Has(txt, LLoad)
PRESS_ANY_KEY_RE(txt) == Has(txt, LPak)
KINGDOM_MENU_RE(txt)  == Has(txt, LKingdom)
AUTORECRUIT_SETUP_PROMPT_RE(txt) == Has(txt, LSetup)
AUTORECRUIT_ALREADY_ON_RE(txt)   == Has(txt, LAlready)

\* save_name.lower() in txt.lower()
SaveNameListed(txt) == Has(txt, LSaveFile)

\* ^\s+\S+\s+vs\.\s+\S+ without re.M: anchored at the start of the text; the
\* leading \s+ also consumes newlines, so empty leading lines are skipped
\* and the first non-empty line must be the indented "X vs. Y".
RECURSIVE LeadingBlank(_)
LeadingBlank(txt) ==
  IF txt # <<>> /\ Head(txt) = LBlank THEN 1 + LeadingBlank(Tail(txt)) ELSE 0

ARENA_FIGHT_START_RE(txt) ==
  LET k == LeadingBlank(txt) IN k < Len(txt) /\ txt[k + 1] = LFight

\* txt.split('\\n', 1)[0]: the separator is the two characters backslash, n,
\* which occur in no line, so the result is the whole text.
FirstLine(txt) == txt

\* --------------------------------------------------------------- commands
\* kind, the number or the text, whether Enter follows, whether the sender
\* sleeps INPUT_DELAY afterwards
Cmd(task, kind, n, text, enter, delay) ==
  [task |-> task, kind |-> kind, n |-> n, text |-> text,
   enter |-> enter, delay |-> delay]

\* F applied to the value of c, which is evaluated once.
On(c, F(_)) == CHOOSE r \in { F(x) : x \in {c} } : TRUE

\* A statement of a handler acts on the configuration c; after a sink call
\* has raised (c.raised) the rest of the call is skipped.
Set(c, f, v) ==
  LET Do(x) == IF x.raised THEN x ELSE [x EXCEPT ![f] = v]
  IN  On(c, Do)

\* gen_q.put(line); a line is written here by its leading words, in ASCII
Put(c, line) ==
  LET Do(x) == IF x.raised THEN x ELSE [x EXCEPT !.logged = Append(@, line)]
  IN  On(c, Do)

\* a sink that is called again when its call has failed
Sink_retries(c, cmd) ==
  LET Do(x) ==
        IF x.raised THEN x
        ELSE IF x.fail_at = x.calls + 1
             THEN [x EXCEPT !.tried = @ \o << [cmd EXCEPT !.task = x.cur],
                                              [cmd EXCEPT !.task = x.cur] >>,
                            !.sent = Append(@, [cmd EXCEPT !.task = x.cur]),
                            !.calls = @ + 2]
             ELSE [x EXCEPT !.tried = Append(@, [cmd EXCEPT !.task = x.cur]),
                            !.sent = Append(@, [cmd EXCEPT !.task = x.cur]),
                            !.calls = @ + 1]
  IN  On(c, Do)

\* input_manager.send_*: the fail_at-th sink call of this feed raises.  tried
\* are the commands handed to the sink, sent those it delivered.
Sink(c, cmd) ==
  LET Do(x) ==
        IF x.raised THEN x
        ELSE IF x.fail_at = x.calls + 1
             THEN [x EXCEPT !.tried = Append(@, [cmd EXCEPT !.task = x.cur]),
                            !.raised = TRUE, !.calls = @ + 1]
             ELSE [x EXCEPT !.tried = Append(@, [cmd EXCEPT !.task = x.cur]),
                            !.sent = Append(@, [cmd EXCEPT !.task = x.cur]),
                            !.calls = @ + 1]
  IN  On(c, Do)

\* the sender of a command is the task being fed (c.cur), filled in by Sink
send_number(c, n)         == Sink(c, Cmd("", "number", n, "", TRUE, FALSE))
send_text(c, text, enter) == Sink(c, Cmd("", "text", 0, text, enter, FALSE))
send_key(c, ch)           == Sink(c, Cmd("", "key", 0, ch, FALSE, FALSE))

\* the wrappers that sleep INPUT_DELAY after the sink call
_send_number(c, n)  == Sink(c, Cmd("", "number", n, "", TRUE, TRUE))
_send_text(c, text) == Sink(c, Cmd("", "text", 0, text, TRUE, TRUE))
_send_key(c)        == Sink(c, Cmd("", "key", 0, " ", FALSE, TRUE))

RECURSIVE SendNumbers(_, _)
SendNumbers(c, ns) ==
  IF ns = <<>> THEN c ELSE SendNumbers(_send_number(c, Head(ns)), Tail(ns))

\* MemoryManager.add_event as the core sees it: the event is recorded and,
\* when this call wrote a long-term summary (c.long), request_save is raised.
add_event(c, desc) ==
  LET Do(x) ==
        IF x.raised THEN x
        ELSE [x EXCEPT !.events = Append(@, desc),
                       !.request_save = IF x.long THEN TRUE ELSE @]
  IN  On(c, Do)

\* --------------------------------------------------------------- BootTask
_h_start(c, txt) ==
  IF MAIN_MENU_RE(txt)
  THEN LET c1 == _send_number(c, 2)
       IN  Set(c1, "boot_s", "LOAD_MENU")
  ELSE c

_h_load_menu(c, txt) ==
  IF ~LOAD_MENU_RE(txt) THEN c
  ELSE IF SaveNameListed(txt)
  THEN LET c1 == Put(c, "TASK: Boot - Found save. Loading")
           c2 == _send_text(c1, save_name)
           c3 == Set(c2, "loaded_save", TRUE)
       IN  Set(c3, "boot_s", "READY")
  ELSE LET c1 == Put(c, "TASK: Boot - Save not found. Starting Quick-start")
           c2 == send_text(c1, "x", TRUE)
           c3 == Set(c2, "loaded_save", FALSE)
       IN  Set(c3, "boot_s", "HANDLE_LOAD_EXIT_ERROR")

_h_handle_load_exit_error(c, txt) ==
  IF PRESS_ANY_KEY_RE(txt)
  THEN LET c1 == _send_key(c)
       IN  Set(c1, "boot_s", "WAIT_FOR_MAIN_MENU_AFTER_ERROR")
  ELSE c

\* after the load error the first main-menu entry is chosen
_h_wait_for_main_menu_new_game(c, txt) ==
  IF MAIN_MENU_RE(txt)
  THEN LET c1 == _send_number(c, 1)
           c2 == add_event(c1, "Quick-start (no save)")
       IN  Set(c2, "boot_s", "ORIGIN")
  ELSE c

_h_wait_for_main_menu_after_error(c, txt) ==
  IF MAIN_MENU_RE(txt)
  THEN LET c1 == _send_number(c, 3)
           c2 == add_event(c1, "Quick-start (no save)")
       IN  Set(c2, "boot_s", "ORIGIN")
  ELSE c

_h_origin(c, txt) ==
  IF PRESS_ANY_KEY_RE(txt)
  THEN LET c1 == Put(c, "TASK: Boot [New] - Capturing Origin narrative")
           c2 == Set(c1, "intro_origin_text", txt)
           c3 == _send_key(c2)
       IN  Set(c3, "boot_s", "CAPTURE_CONDITIONS")
  ELSE c

\* the conditions capture also overwrites the origin narrative
_h_conditions_overwrites(c, txt) ==
  IF PRESS_ANY_KEY_RE(txt)
  THEN LET c1 == Put(c, "TASK: Boot [New] - Capturing Conditions narrative")
           c2 == Set(c1, "intro_conditions_text", txt)
           c3 == Set(c2, "intro_origin_text", txt)
           c4 == _send_key(c3)
       IN  Set(c4, "boot_s", "SKIP_CEREMONY")
  ELSE c

_h_conditions(c, txt) ==
  IF PRESS_ANY_KEY_RE(txt)
  THEN LET c1 == Put(c, "TASK: Boot [New] - Capturing Conditions narrative")
           c2 == Set(c1, "intro_conditions_text", txt)
           c3 == _send_key(c2)
       IN  Set(c3, "boot_s", "SKIP_CEREMONY")
  ELSE c

_h_skip_ceremony(c, txt) ==
  IF Has(txt, LCeremony)
  THEN LET c1 == _send_number(c, 2)
       IN  Set(c1, "boot_s", "SKIP_CROLL")
  ELSE c

\* the croll screen is not answered and SKIP_CROLL is not left
_h_skip_croll_stays(c, txt) == c

_h_skip_croll(c, txt) ==
  IF Has(txt, LCroll)
  THEN LET c1 == _send_number(c, 2)
       IN  Set(c1, "boot_s", "SKIP_WAIT")
  ELSE c

\* the wait screen sends BootTask back to the origin capture
_h_skip_wait_restarts(c, txt) ==
  IF PRESS_ANY_KEY_RE(txt)
  THEN LET c1 == _send_key(c)
       IN  Set(c1, "boot_s", "ORIGIN")
  ELSE c

_h_skip_wait(c, txt) ==
  IF PRESS_ANY_KEY_RE(txt)
  THEN LET c1 == _send_key(c)
       IN  Set(c1, "boot_s", "READY")
  ELSE c

\* the new-game completion marks the session as loaded
_enable_autorecruit_marks_loaded(c) ==
  LET c1 == Put(c, "TASK: Boot [New] - Enabling auto-recruit")
      c2 == SendNumbers(c1, <<1, 7, 1, 0, 0>>)
      c3 == add_event(c2, "Auto-recruit enabled (New Game)")
      c4 == Set(c3, "in_kingdom_menu", TRUE)
      c5 == Set(c4, "needs_save", TRUE)
      c6 == Set(c5, "loaded_save", TRUE)
      c7 == Put(c6, "TASK: Boot [New] - Requesting initial save")
      c8 == Set(c7, "boot_state", "DONE")
  IN  Put(c8, "TASK: Boot [New] - Boot complete")

\* the new-game path requests the save and leaves BootTask Active
_enable_autorecruit_new_game_unfinished(c) ==
  LET c1 == Put(c, "TASK: Boot [New] - Enabling auto-recruit")
      c2 == SendNumbers(c1, <<1, 7, 1, 0, 0>>)
      c3 == add_event(c2, "Auto-recruit enabled (New Game)")
      c4 == Set(c3, "in_kingdom_menu", TRUE)
      c5 == Set(c4, "needs_save", TRUE)
  IN  Put(c5, "TASK: Boot [New] - Requesting initial save")

_enable_autorecruit_new_game(c) ==
  LET c1 == Put(c, "TASK: Boot [New] - Enabling auto-recruit")
      c2 == SendNumbers(c1, <<1, 7, 1, 0, 0>>)
      c3 == add_event(c2, "Auto-recruit enabled (New Game)")
      c4 == Set(c3, "in_kingdom_menu", TRUE)
      c5 == Set(c4, "needs_save", TRUE)
      c6 == Put(c5, "TASK: Boot [New] - Requesting initial save")
      c7 == Set(c6, "boot_state", "DONE")
  IN  Put(c7, "TASK: Boot [New] - Boot complete")

\* READY enables auto-recruit itself, loaded save or not
_h_ready_enables_directly(c, txt) ==
  IF ~KINGDOM_MENU_RE(txt) THEN c
  ELSE _enable_autorecruit_new_game(c)

_h_ready(c, txt) ==
  IF ~KINGDOM_MENU_RE(txt) THEN c
  ELSE IF ~c.loaded_save
  THEN _enable_autorecruit_new_game(c)
  ELSE LET c1 == Put(c, "TASK: Boot [Load] - Checking auto-recruit status")
           c2 == _send_number(c1, 1)
           c3 == _send_number(c2, 7)
       IN  Set(c3, "boot_s", "CHECK_AUTORECRUIT")

\* CHECK_AUTORECRUIT waits for a screen it knows
_h_check_autorecruit_waits(c, txt) ==
  IF ~AUTORECRUIT_SETUP_PROMPT_RE(txt) /\ ~AUTORECRUIT_ALREADY_ON_RE(txt)
  THEN Put(c, "WARN: Boot [Load] - Unknown auto-recruit screen")
  ELSE LET c1 == IF AUTORECRUIT_SETUP_PROMPT_RE(txt)
                 THEN add_event(SendNumbers(c, <<1, 0, 0>>),
                                "Auto-recruit enabled (Loaded Game)")
                 ELSE add_event(SendNumbers(c, <<0, 0>>),
                                "Auto-recruit verified ON (Loaded Game)")
           c2 == Set(c1, "in_kingdom_menu", TRUE)
       IN  Set(c2, "boot_state", "DONE")

_h_check_autorecruit(c, txt) ==
  LET c1 == IF AUTORECRUIT_SETUP_PROMPT_RE(txt)
            THEN add_event(SendNumbers(Put(c, "TASK: Boot [Load] - Auto-recruit is OFF. Enabling"),
                                       <<1, 0, 0>>),
                           "Auto-recruit enabled (Loaded Game)")
            ELSE IF AUTORECRUIT_ALREADY_ON_RE(txt)
            THEN add_event(SendNumbers(Put(c, "TASK: Boot [Load] - Auto-recruit already ON"),
                                       <<0, 0>>),
                           "Auto-recruit verified ON (Loaded Game)")
            ELSE Put(c, "WARN: Boot [Load] - Unknown auto-recruit screen")
      c2 == Set(c1, "in_kingdom_menu", TRUE)
      c3 == Set(c2, "boot_state", "DONE")
  IN  Put(c3, "TASK: Boot [Load] - Boot complete")

\* BootTask._handlers[self.s](txt)
BootHandlers(c, txt) ==
  CASE c.boot_s = "START"                          -> _h_start(c, txt)
    [] c.boot_s = "LOAD_MENU"                      -> _h_load_menu(c, txt)
    [] c.boot_s = "HANDLE_LOAD_EXIT_ERROR"         -> _h_handle_load_exit_error(c, txt)
    [] c.boot_s = "WAIT_FOR_MAIN_MENU_AFTER_ERROR" -> _h_wait_for_main_menu_after_error(c, txt)
    [] c.boot_s = "ORIGIN"                         -> _h_origin(c, txt)
    [] c.boot_s = "CAPTURE_CONDITIONS"             -> _h_conditions(c, txt)
    [] c.boot_s = "SKIP_CEREMONY"                  -> _h_skip_ceremony(c, txt)
    [] c.boot_s = "SKIP_CROLL"                     -> _h_skip_croll(c, txt)
    [] c.boot_s = "SKIP_WAIT"                      -> _h_skip_wait(c, txt)
    [] c.boot_s = "READY"                          -> _h_ready(c, txt)
    [] c.boot_s = "CHECK_AUTORECRUIT"              -> _h_check_autorecruit(c, txt)

\* A task's feed is entered: the call is recorded and the task becomes the
\* sender of the commands that follow.
Enter(c, task) ==
  IF c.raised THEN c ELSE [c EXCEPT !.fed = Append(@, task), !.cur = task]

BootTask_feed(c0, txt) ==
  LET Body(c) == IF c.boot_state = "DONE" THEN c ELSE BootHandlers(c, txt)
  IN  On(Enter(c0, "Boot"), Body)

\* --------------------------------------------------------------- SaveTask
SaveSync(c) ==
  IF c.request_save
  THEN Set(Set(c, "needs_save", TRUE), "request_save", FALSE)
  ELSE c

SaveReactivate(c) ==
  IF c.save_state = "DONE" /\ c.needs_save
  THEN LET c1 == Set(c, "save_state", "ACTIVE")
           c2 == Set(c1, "save_s", "WAIT")
       IN  Put(c2, "TASK: Save - Reactivated for new request")
  ELSE c

\* WAIT starts the sequence on needs_save alone
SaveWait_any_screen(c) ==
  IF c.needs_save
  THEN LET c1 == Put(c, "TASK: Save - Initiating save sequence")
           c2 == _send_number(c1, 13)
       IN  Set(c2, "save_s", "EXTRAS")
  ELSE c

SaveWait(c) ==
  IF c.needs_save /\ c.in_kingdom_menu
  THEN LET c1 == Put(c, "TASK: Save - Initiating save sequence")
           c2 == _send_number(c1, 13)
       IN  Set(c2, "save_s", "EXTRAS")
  ELSE c

\* the Extras step opens the Extras menu once more
SaveExtras_reopens(c) ==
  LET c1 == _send_number(c, 13)
  IN  Set(c1, "save_s", "NAME")

SaveExtras(c) ==
  LET c1 == _send_number(c, 1)
  IN  Set(c1, "save_s", "NAME")

SaveName(c) ==
  LET c1 == _send_text(c, save_name)
  IN  Set(c1, "save_s", "CONFIRM")

\* the confirm step that leaves needs_save set
SaveConfirm_keeps_flag(c) ==
  LET c1 == _send_key(c)
      c2 == _send_number(c1, 0)
      c3 == add_event(c2, "Game saved")
      c4 == Set(c3, "save_state", "DONE")
  IN  Put(c4, "TASK: Save - Sequence complete")

SaveConfirm(c) ==
  LET c1 == _send_key(c)
      c2 == _send_number(c1, 0)
      c3 == add_event(c2, "Game saved")
      c4 == Set(c3, "needs_save", FALSE)
      c5 == Set(c4, "save_state", "DONE")
  IN  Put(c5, "TASK: Save - Sequence complete")

\* lines 289-313
SaveMachine(c, txt) ==
  IF c.save_s = "WAIT" THEN SaveWait(c)
  ELSE IF c.save_s = "EXTRAS" /\ Has(txt, LSaveGame) THEN SaveExtras(c)
  ELSE IF c.save_s = "NAME" /\ Has(txt, LSaveName) THEN SaveName(c)
  ELSE IF c.save_s = "CONFIRM" /\ PRESS_ANY_KEY_RE(txt) THEN SaveConfirm(c)
  ELSE c

SaveTask_feed(c0, txt) ==
  LET Synced(c)  == SaveReactivate(SaveSync(c))
      Machine(c) == IF c.save_state = "DONE" THEN c ELSE SaveMachine(c, txt)
  IN  On(On(Enter(c0, "Save"), Synced), Machine)

SaveTask_reset(c) ==
  LET c1 == Set(c, "save_state", "ACTIVE")
  IN  Set(c1, "save_s", "WAIT")

\* -------------------------------------------------------------- ArenaTask
\* the fight is entered without the dismiss key
ArenaWaiting_no_key(c, txt) ==
  LET first_line == FirstLine(txt)
  IN  IF ARENA_FIGHT_START_RE(first_line)
      THEN LET c1 == Put(c, "TASK: Arena - Fight detected")
               c2 == Set(c1, "in_arena_fight", TRUE)
               c3 == Set(c2, "arena_state", "ACTIVE")
           IN  Set(c3, "arena_s", "FIGHTING")
      ELSE c

\* the fight is entered with the run-state left at Waiting
ArenaWaiting_stays_waiting(c, txt) ==
  LET first_line == FirstLine(txt)
  IN  IF ARENA_FIGHT_START_RE(first_line)
      THEN LET c1 == Put(c, "TASK: Arena - Fight detected")
               c2 == Set(c1, "in_arena_fight", TRUE)
               c3 == Set(c2, "arena_s", "FIGHTING")
           IN  _send_key(c3)
      ELSE c

ArenaWaiting(c, txt) ==
  LET first_line == FirstLine(txt)
  IN  IF ARENA_FIGHT_START_RE(first_line)
      THEN LET c1 == Put(c, "TASK: Arena - Fight detected")
               c2 == Set(c1, "in_arena_fight", TRUE)
               c3 == Set(c2, "arena_state", "ACTIVE")
               c4 == Set(c3, "arena_s", "FIGHTING")
           IN  _send_key(c4)
      ELSE c

\* the end of the fight leaves in_arena_fight set
ArenaFighting_keeps_flag(c, txt) ==
  IF PRESS_ANY_KEY_RE(txt)
  THEN IF KINGDOM_MENU_RE(txt)
       THEN LET c1 == Put(c, "TASK: Arena - Fight finished")
                c2 == Set(c1, "arena_s", "FIGHT_OVER")
                c3 == Set(c2, "arena_state", "DONE")
            IN  _send_key(c3)
       ELSE _send_key(c)
  ELSE IF KINGDOM_MENU_RE(txt)
  THEN LET c1 == Put(c, "WARN: Arena - Kingdom menu detected unexpectedly during fight")
           c2 == Set(c1, "in_arena_fight", FALSE)
           c3 == Set(c2, "arena_s", "FIGHT_OVER")
       IN  Set(c3, "arena_state", "DONE")
  ELSE c

\* the fight is advanced on every snapshot, prompt or not
ArenaFighting_unguarded(c, txt) ==
  IF KINGDOM_MENU_RE(txt)
  THEN LET c1 == Put(c, "TASK: Arena - Fight finished")
           c2 == Set(c1, "in_arena_fight", FALSE)
           c3 == Set(c2, "arena_s", "FIGHT_OVER")
           c4 == Set(c3, "arena_state", "DONE")
       IN  _send_key(c4)
  ELSE _send_key(c)

\* a press-any-key prompt ends the fight, kingdom menu or not
ArenaFighting_one_round(c, txt) ==
  IF PRESS_ANY_KEY_RE(txt)
  THEN LET c1 == Put(c, "TASK: Arena - Fight finished")
           c2 == Set(c1, "in_arena_fight", FALSE)
           c3 == Set(c2, "arena_s", "FIGHT_OVER")
           c4 == Set(c3, "arena_state", "DONE")
       IN  _send_key(c4)
  ELSE IF KINGDOM_MENU_RE(txt)
  THEN LET c1 == Put(c, "WARN: Arena - Kingdom menu detected unexpectedly during fight")
           c2 == Set(c1, "in_arena_fight", FALSE)
           c3 == Set(c2, "arena_s", "FIGHT_OVER")
       IN  Set(c3, "arena_state", "DONE")
  ELSE c

\* the unexpected kingdom menu is dismissed with a key, without a warning
ArenaFighting_dismisses_menu(c, txt) ==
  IF PRESS_ANY_KEY_RE(txt)
  THEN IF KINGDOM_MENU_RE(txt)
       THEN LET c1 == Put(c, "TASK: Arena - Fight finished")
                c2 == Set(c1, "in_arena_fight", FALSE)
                c3 == Set(c2, "arena_s", "FIGHT_OVER")
                c4 == Set(c3, "arena_state", "DONE")
            IN  _send_key(c4)
       ELSE _send_key(c)
  ELSE IF KINGDOM_MENU_RE(txt)
  THEN LET c1 == Put(c, "TASK: Arena - Fight finished")
           c2 == Set(c1, "in_arena_fight", FALSE)
           c3 == Set(c2, "arena_s", "FIGHT_OVER")
           c4 == Set(c3, "arena_state", "DONE")
       IN  _send_key(c4)
  ELSE c

ArenaFighting(c, txt) ==
  IF PRESS_ANY_KEY_RE(txt)
  THEN IF KINGDOM_MENU_RE(txt)
       THEN LET c1 == Put(c, "TASK: Arena - Fight finished")
                c2 == Set(c1, "in_arena_fight", FALSE)
                c3 == Set(c2, "arena_s", "FIGHT_OVER")
                c4 == Set(c3, "arena_state", "DONE")
            IN  _send_key(c4)
       ELSE _send_key(c)
  ELSE IF KINGDOM_MENU_RE(txt)
  THEN LET c1 == Put(c, "WARN: Arena - Kingdom menu detected unexpectedly during fight")
           c2 == Set(c1, "in_arena_fight", FALSE)
           c3 == Set(c2, "arena_s", "FIGHT_OVER")
       IN  Set(c3, "arena_state", "DONE")
  ELSE c

ArenaTask_feed(c0, txt) ==
  LET Body(c) ==
        IF c.arena_state = "DONE" THEN c
        ELSE IF c.arena_s = "WAITING_FOR_FIGHT" THEN ArenaWaiting(c, txt)
        ELSE IF c.arena_s = "FIGHTING" THEN ArenaFighting(c, txt)
        ELSE c
  IN  On(Enter(c0, "Arena"), Body)

\* a reset that flips the run-state between Waiting and Active
ArenaTask_reset_flips(c) ==
  LET c1 == Set(c, "arena_state", IF c.arena_state = "WAITING" THEN "ACTIVE" ELSE "WAITING")
      c2 == Set(c1, "arena_s", "WAITING_FOR_FIGHT")
      c3 == Set(c2, "in_arena_fight", FALSE)
  IN  Put(c3, "TASK: Arena - Reset. Waiting for next fight")

ArenaTask_reset(c) ==
  LET c1 == Set(c, "arena_state", "WAITING")
      c2 == Set(c1, "arena_s", "WAITING_FOR_FIGHT")
      c3 == Set(c2, "in_arena_fight", FALSE)
  IN  Put(c3, "TASK: Arena - Reset. Waiting for next fight")

\* -------------------------------------------------------------- CoreAgent
VARIABLES
  boot_state, boot_s,          \* BootTask.state, BootTask.s
  save_state, save_s,          \* SaveTask.state, SaveTask.s
  arena_state, arena_s,        \* ArenaTask.state, ArenaTask.s
  loaded_save, in_kingdom_menu, needs_save, in_arena_fight,
  intro_origin_text, intro_conditions_text,     \* AgentContext
  request_save,                \* MemoryManager.request_save
  op,                          \* the last operation: "init", "feed", "add_event"
  buf,                         \* the snapshot of the last CoreAgent.feed
  sent,                        \* the commands the sink delivered in that call
  tried,                       \* the commands handed to the sink in that call
  events,                      \* the add_event calls made in that call
  logged,                      \* the lines put on gen_q in that call
  fed,                         \* the tasks whose feed was called, in order
  at_entry,                    \* the program state when that call began
  at_dispatch,                 \* the program state after its reset logic
  raised,                      \* whether that call ended with a sink error
  boot_sent,                   \* every command sent in the calls made while BootTask was Active
  boot_script,                 \* how far the calls so far follow NewGameScript (-1: they do not)
  save_script,                 \* how far the last calls follow SaveScript
  save_cycle,                  \* the commands SaveTask sent since it was last in WAIT
  polled_twice,                \* the session that is fed every snapshot of the boot twice
  mem,                         \* MemoryManager: turns, buffer, summaries, the last add_event
  llm                          \* LLMManager: the turn counter, the history kept for reflection, the last step

ProgNames ==
  { "boot_state", "boot_s", "save_state", "save_s", "arena_state", "arena_s",
    "loaded_save", "in_kingdom_menu", "needs_save", "in_arena_fight",
    "intro_origin_text", "intro_conditions_text", "request_save" }

Prog(c) == [f \in ProgNames |-> c[f]]

\* the program state as a configuration at the start of a call
Cur(txt, long, fail_at) ==
  [ boot_state |-> boot_state, boot_s |-> boot_s,
    save_state |-> save_state, save_s |-> save_s,
    arena_state |-> arena_state, arena_s |-> arena_s,
    loaded_save |-> loaded_save, in_kingdom_menu |-> in_kingdom_menu,
    needs_save |-> needs_save, in_arena_fight |-> in_arena_fight,
    intro_origin_text |-> intro_origin_text,
    intro_conditions_text |-> intro_conditions_text,
    request_save |-> request_save,
    sent |-> <<>>, tried |-> <<>>, events |-> <<>>, logged |-> <<>>, fed |-> <<>>,
    cur |-> "Core", calls |-> 0, processed |-> FALSE, raised |-> FALSE,
    long |-> long, fail_at |-> fail_at ]

\* the flag is raised by a kingdom-menu snapshot and never lowered
UpdateMenuFlag_sticky(c, txt) ==
  IF KINGDOM_MENU_RE(txt) /\ ~c.in_kingdom_menu
  THEN LET c1 == Set(c, "in_kingdom_menu", TRUE)
       IN  IF ~c1.in_arena_fight THEN Put(c1, "AGENT: Entered Kingdom Menu") ELSE c1
  ELSE c

\* the kingdom-menu line is logged for every kingdom-menu snapshot
UpdateMenuFlag_level(c, txt) ==
  LET in_menu == KINGDOM_MENU_RE(txt)
      c1 == Set(c, "in_kingdom_menu", in_menu)
  IN  IF (in_menu \/ c.in_kingdom_menu) /\ ~c1.in_arena_fight
      THEN Put(c1, IF in_menu THEN "AGENT: Entered Kingdom Menu"
                              ELSE "AGENT: Exited Kingdom Menu")
      ELSE c1

\* lines 396-402: the kingdom-menu flag follows the snapshot, logged on an edge
UpdateMenuFlag(c, txt) ==
  LET in_menu == KINGDOM_MENU_RE(txt)
  IN  IF in_menu # c.in_kingdom_menu
      THEN LET c1 == Set(c, "in_kingdom_menu", in_menu)
           IN  IF ~c1.in_arena_fight
               THEN Put(c1, IF in_menu THEN "AGENT: Entered Kingdom Menu"
                                       ELSE "AGENT: Exited Kingdom Menu")
               ELSE c1
      ELSE c

\* a finished SaveTask is left alone
ResetSave_never(c) == c

\* lines 404-408
ResetSave(c) ==
  IF c.save_state = "DONE" /\ c.needs_save THEN SaveTask_reset(c) ELSE c

\* a finished ArenaTask is re-armed only away from the kingdom menu
ResetArena_off_menu(c) ==
  IF c.arena_state = "DONE" /\ ~c.in_kingdom_menu THEN ArenaTask_reset(c) ELSE c

\* lines 410-413
ResetArena(c) ==
  IF c.arena_state = "DONE" THEN ArenaTask_reset(c) ELSE c

\* BootTask's handler is called again after BootTask is Done
DispatchBoot_refeeds(c, txt) ==
  LET Handle(x) == BootHandlers(x, txt)
  IN  IF c.boot_state \in {"ACTIVE", "DONE"}
      THEN Set(On(Enter(c, "Boot"), Handle), "processed", TRUE)
      ELSE c

\* BootTask fed without processed = True
DispatchBoot_unmarked(c, txt) ==
  IF c.boot_state = "ACTIVE" THEN BootTask_feed(c, txt) ELSE c

\* lines 417-421
DispatchBoot(c, txt) ==
  IF c.boot_state = "ACTIVE"
  THEN Set(BootTask_feed(c, txt), "processed", TRUE)
  ELSE c

\* a fed SaveTask counts as having processed the snapshot
DispatchSave_blocks(c, txt) ==
  IF ~c.processed /\ c.save_state = "ACTIVE" /\ c.needs_save
  THEN Set(SaveTask_feed(c, txt), "processed", TRUE)
  ELSE c

\* lines 423-427
DispatchSave(c, txt) ==
  IF ~c.processed /\ c.save_state = "ACTIVE" /\ c.needs_save
  THEN SaveTask_feed(c, txt)
  ELSE c

\* lines 429-434
DispatchArena(c, txt) ==
  LET Mark(c1) == IF c1.arena_state = "ACTIVE" THEN Set(c1, "processed", TRUE) ELSE c1
  IN  IF ~c.processed /\ c.arena_state \in {"WAITING", "ACTIVE"}
      THEN On(ArenaTask_feed(c, txt), Mark)
      ELSE c

\* lines 396-413
CoreAgent_resets(c, txt) ==
  LET Save(x)  == ResetSave(x)
      Arena(x) == ResetArena(x)
  IN  On(On(UpdateMenuFlag(c, txt), Save), Arena)

\* ArenaTask is offered the snapshot before SaveTask
CoreAgent_dispatch_arena_first(c, txt) ==
  LET Save(x)  == DispatchSave(x, txt)
      Arena(x) == DispatchArena(x, txt)
  IN  On(On(DispatchBoot(c, txt), Arena), Save)

\* lines 415-434
CoreAgent_dispatch(c, txt) ==
  LET Save(x)  == DispatchSave(x, txt)
      Arena(x) == DispatchArena(x, txt)
  IN  On(On(DispatchBoot(c, txt), Save), Arena)

\* CoreAgent.ready_for_llm over the task list [BootTask, SaveTask, ArenaTask]
Tasks ==
  << [kind |-> "BootTask",  state |-> boot_state],
     [kind |-> "SaveTask",  state |-> save_state],
     [kind |-> "ArenaTask", state |-> arena_state] >>

\* ready_for_llm without the arena flag
ready_for_llm_boot_only ==
  \E i \in 1..Len(Tasks) : Tasks[i].kind = "BootTask" /\ Tasks[i].state = "DONE"

ready_for_llm ==
  LET boot_done    == \E i \in 1..Len(Tasks) :
                         Tasks[i].kind = "BootTask" /\ Tasks[i].state = "DONE"
      arena_active == in_arena_fight
  IN  boot_done /\ ~arena_active

vars ==
  << boot_state, boot_s, save_state, save_s, arena_state, arena_s,
     loaded_save, in_kingdom_menu, needs_save, in_arena_fight,
     intro_origin_text, intro_conditions_text, request_save,
     op, buf, sent, tried, events, logged, fed, at_entry, at_dispatch, raised,
     boot_sent, boot_script, save_script, save_cycle, polled_twice, mem, llm >>

progVars ==
  << boot_state, boot_s, save_state, save_s, arena_state, arena_s,
     loaded_save, in_kingdom_menu, needs_save, in_arena_fight,
     intro_origin_text, intro_conditions_text, request_save >>

obsVars ==
  << buf, sent, tried, events, logged, fed, at_entry, at_dispatch, raised,
     boot_sent, boot_script, save_script, save_cycle, polled_twice, mem, llm >>

\* ------------------------------------------------- scripted feed sequences
\* The new-game boot: main menu, load menu without the save, press-any-key,
\* main menu, press-any-key twice, ceremony, croll, press-any-key, kingdom menu.
NewGameScript(i, txt) ==
  CASE i = 1  -> MAIN_MENU_RE(txt)
    [] i = 2  -> LOAD_MENU_RE(txt) /\ ~SaveNameListed(txt)
    [] i = 3  -> PRESS_ANY_KEY_RE(txt)
    [] i = 4  -> MAIN_MENU_RE(txt)
    [] i = 5  -> PRESS_ANY_KEY_RE(txt)
    [] i = 6  -> PRESS_ANY_KEY_RE(txt)
    [] i = 7  -> Has(txt, LCeremony)
    [] i = 8  -> Has(txt, LCroll)
    [] i = 9  -> PRESS_ANY_KEY_RE(txt)
    [] i = 10 -> KINGDOM_MENU_RE(txt)
    [] OTHER  -> FALSE

NextBootScript(txt) ==
  IF boot_script >= 0 /\ NewGameScript(boot_script + 1, txt)
  THEN boot_script + 1 ELSE -1

\* The save sequence: a screen with the Extras label fed when BootTask is Done,
\* SaveTask is in WAIT, needs_save and in_kingdom_menu; then "Save Game",
\* "Save Name", press-any-key.  km: the first screen was a kingdom menu;
\* saved: the "Game saved" events recorded since the sequence began.
SaveScriptOff == [pos |-> 0, km |-> FALSE, saved |-> 0]

SaveScriptPre ==
  /\ boot_state = "DONE" /\ save_state = "ACTIVE" /\ save_s = "WAIT"
  /\ needs_save /\ in_kingdom_menu

SaveScript(i, txt) ==
  CASE i = 1 -> SaveScriptPre /\ Has(txt, LExtras)
    [] i = 2 -> Has(txt, LSaveGame)
    [] i = 3 -> Has(txt, LSaveName)
    [] i = 4 -> PRESS_ANY_KEY_RE(txt)
    [] OTHER -> FALSE

Count(seq, x) == Cardinality({i \in 1..Len(seq) : seq[i] = x})

NextSaveScript(txt, evs) ==
  LET n == Count(evs, "Game saved")
  IN  IF save_script.pos \in 1..3 /\ SaveScript(save_script.pos + 1, txt)
      THEN [save_script EXCEPT !.pos = @ + 1, !.saved = @ + n]
      ELSE IF SaveScript(1, txt)
      THEN [pos |-> 1, km |-> KINGDOM_MENU_RE(txt), saved |-> n]
      ELSE SaveScriptOff

\* The commands of one save cycle: a call that finds SaveTask in WAIT at
\* dispatch begins a cycle, any other call continues the one under way.
NextSaveCycle(c1, c2) ==
  LET mine == SelectSeq(c2.sent, LAMBDA cmd : cmd.task = "Save")
  IN  IF c1.save_s = "WAIT" THEN mine ELSE save_cycle \o mine

\* The program state after construction.
InitProg ==
  [ boot_state |-> "ACTIVE", boot_s |-> "START",
    save_state |-> "ACTIVE", save_s |-> "WAIT",
    arena_state |-> "WAITING", arena_s |-> "WAITING_FOR_FIGHT",
    loaded_save |-> FALSE, in_kingdom_menu |-> FALSE,
    needs_save |-> FALSE, in_arena_fight |-> FALSE,
    intro_origin_text |-> <<>>, intro_conditions_text |-> <<>>,
    request_save |-> FALSE ]

\* CoreAgent.feed(txt) on the program state p: the configuration it returns
FeedOn(p, txt, long) ==
  LET c0 == p @@ [ sent |-> <<>>, tried |-> <<>>, events |-> <<>>, logged |-> <<>>, fed |-> <<>>,
                   cur |-> "Core", calls |-> 0, processed |-> FALSE,
                   raised |-> FALSE, long |-> long, fail_at |-> 0 ]
      Dispatch(c1) == CoreAgent_dispatch(c1, txt)
  IN  On(CoreAgent_resets(c0, txt), Dispatch)

\* A second session, constructed like this one, is fed for as long as
\* BootTask of this one is Active each snapshot of this one twice in a row;
\* sent are its BootTask's commands.  It is followed until its own BootTask
\* is Done, and let go (PolledTwiceOff) once this one has booted.
PolledTwiceOff == [live |-> FALSE, prog |-> InitProg, sent |-> <<>>]

\* Its memory manager writes no long-term summary during the boot.
FeedUntilBooted(p, txt) ==
  IF p.boot_state = "DONE"
  THEN [prog |-> p, sent |-> <<>>]
  ELSE LET Pack(c) == [prog |-> Prog(c), sent |-> c.sent]
       IN  On(FeedOn(p, txt, FALSE), Pack)

NextPolledTwice(txt) ==
  IF boot_state # "ACTIVE" THEN PolledTwiceOff
  ELSE LET First(p)   == FeedUntilBooted(p, txt)
           Second(x)  == LET Join(y) == [prog |-> y.prog, sent |-> x.sent \o y.sent]
                         IN  On(FeedUntilBooted(x.prog, txt), Join)
           Both(p)    == On(On(p, First), Second)
           Add(r)     == [ live |-> TRUE, prog |-> r.prog,
                           sent |-> polled_twice.sent \o r.sent ]
       IN  On(Both(polled_twice.prog), Add)

\* MemoryManager.__init__ with no memory file: no turn counted, the buffer
\* and the history of short summaries empty, no long-term summary.  buffer
\* and short_summary_history are followed by their lengths, long_summary by
\* whether it is set; asked, saved and failed tell of the last add_event
\* whether the long-term summary was asked for and with what outcome,
\* whether _save_disk wrote it, and whether _save_disk raised.
InitMem ==
  [ turns |-> 0, buffer |-> 0, short_summary_history |-> 0, long_summary |-> FALSE,
    asked |-> "no", saved |-> FALSE, failed |-> FALSE ]

\* LLMManager.__init__: _turn, the length of _reflection_history, and of the
\* last step the value of _turn at its entry, the number of times the model
\* was asked, the number of tools executed, the reply the tool was executed
\* for and how the step ended.
InitLLM ==
  [ turn |-> 0, reflection_history |-> 0,
    before |-> 0, asked |-> 0, executed |-> 0, reply |-> "", outcome |-> "" ]

\* AgentContext.__init__, Task.__init__, BootTask/SaveTask/ArenaTask.__init__,
\* MemoryManager.__init__
Init ==
  /\ boot_state = "ACTIVE" /\ boot_s = "START"
  /\ save_state = "ACTIVE" /\ save_s = "WAIT"
  /\ arena_state = "WAITING" /\ arena_s = "WAITING_FOR_FIGHT"
  /\ loaded_save = FALSE /\ in_kingdom_menu = FALSE
  /\ needs_save = FALSE /\ in_arena_fight = FALSE
  /\ intro_origin_text = <<>> /\ intro_conditions_text = <<>>
  /\ request_save = FALSE
  /\ op = "init" /\ buf = <<>>
  /\ sent = <<>> /\ tried = <<>> /\ events = <<>> /\ fed = <<>> /\ raised = FALSE
  /\ logged = << "TASK: Boot - Starting boot sequence", "AGENT: CoreAgent initialized" >>
  /\ at_entry = Prog(Cur(<<>>, FALSE, 0))
  /\ at_dispatch = Prog(Cur(<<>>, FALSE, 0))
  /\ boot_sent = <<>> /\ boot_script = 0 /\ save_script = SaveScriptOff
  /\ save_cycle = <<>>
  /\ polled_twice = PolledTwiceOff
  /\ mem = InitMem
  /\ llm = InitLLM

Install(c) ==
  /\ boot_state' = c.boot_state /\ boot_s' = c.boot_s
  /\ save_state' = c.save_state /\ save_s' = c.save_s
  /\ arena_state' = c.arena_state /\ arena_s' = c.arena_s
  /\ loaded_save' = c.loaded_save /\ in_kingdom_menu' = c.in_kingdom_menu
  /\ needs_save' = c.needs_save /\ in_arena_fight' = c.in_arena_fight
  /\ intro_origin_text' = c.intro_origin_text
  /\ intro_conditions_text' = c.intro_conditions_text
  /\ request_save' = c.request_save
  /\ sent' = c.sent /\ tried' = c.tried /\ events' = c.events /\ logged' = c.logged
  /\ fed' = c.fed /\ raised' = c.raised

\* what a call of CoreAgent.feed leaves behind: c0 is the configuration at
\* its entry, c1 the one at dispatch, c2 the one it returns
Returned(txt, c0, c1, c2) ==
  /\ Install(c2)
  /\ op' = "feed"
  /\ buf' = txt
  /\ at_entry' = Prog(c0)
  /\ at_dispatch' = Prog(c1)
  /\ mem' = mem /\ llm' = llm

\* CoreAgent.feed(buf): txt is the snapshot, long tells whether an add_event
\* made in this call writes a long-term summary, fail_at which sink call of
\* this call raises (0: none).
CoreAgent_feed(txt, long, fail_at) ==
  \E c0 \in {Cur(txt, long, fail_at)} :
    \E c1 \in {CoreAgent_resets(c0, txt)} :
      \E c2 \in {CoreAgent_dispatch(c1, txt)} :
        /\ Returned(txt, c0, c1, c2)
        /\ boot_sent' = IF boot_state = "ACTIVE" THEN boot_sent \o c2.sent ELSE boot_sent
        /\ boot_script' = NextBootScript(txt)
        /\ save_script' = NextSaveScript(txt, c2.events)
        /\ save_cycle' = NextSaveCycle(c1, c2)

\* add_event is called only by the transitions out of these sub-states; in
\* any other call its outcome is not drawn.
LongOutcomes ==
  IF \/ boot_state = "ACTIVE"
        /\ boot_s \in {"WAIT_FOR_MAIN_MENU_AFTER_ERROR", "READY", "CHECK_AUTORECRUIT"}
     \/ save_s = "CONFIRM"
  THEN BOOLEAN ELSE {FALSE}

FeedScreen(txt) ==
  /\ \E long \in LongOutcomes : CoreAgent_feed(txt, long, 0)
  /\ UNCHANGED polled_twice

Feed == \E txt \in Screens : FeedScreen(txt)

\* The caller of the core records an event of its own between two feeds:
\* MemoryManager.add_event, which raises request_save when it wrote a
\* long-term summary.
MemAddEvent ==
  /\ \E long \in BOOLEAN : request_save' = (request_save \/ long)
  /\ op' = "add_event"
  /\ UNCHANGED << boot_state, boot_s, save_state, save_s, arena_state, arena_s,
                  loaded_save, in_kingdom_menu, needs_save, in_arena_fight,
                  intro_origin_text, intro_conditions_text >>
  /\ UNCHANGED obsVars

Next == Feed \/ MemAddEvent

Spec == Init /\ [][Next]_vars

\* The snapshot loop never stops: the kingdom menu and the empty screen are
\* each fed again and again.
FairSpec ==
  Spec /\ WF_vars(FeedScreen(<<LKingdom>>)) /\ WF_vars(FeedScreen(<<>>))

\* A holder of CoreAgent.ctx raises needs_save between two feeds.
SetNeedsSave ==
  /\ boot_state = "DONE"
  /\ ~needs_save
  /\ needs_save' = TRUE
  /\ op' = "set_needs_save"
  /\ UNCHANGED << boot_state, boot_s, save_state, save_s, arena_state, arena_s,
                  loaded_save, in_kingdom_menu, in_arena_fight,
                  intro_origin_text, intro_conditions_text, request_save >>
  /\ UNCHANGED obsVars

NextCtx == Feed \/ MemAddEvent \/ SetNeedsSave

\* CoreAgent.feed of this session together with the two feeds of the second
\* session
FeedScreenTwice(txt) ==
  /\ \E long \in LongOutcomes : CoreAgent_feed(txt, long, 0)
  /\ polled_twice' = NextPolledTwice(txt)

FeedTwice == \E txt \in Screens : FeedScreenTwice(txt)

NextTwice == FeedTwice \/ MemAddEvent

SpecTwice == Init /\ [][NextTwice]_vars

SpecCtx == Init /\ [][NextCtx]_vars

\* ------------------------------------------------ the tasks called directly
\* A method of a task called on the session as it stands by a holder of the
\* task other than CoreAgent.feed: c0 is the configuration at the call, c2
\* the one it returns.  at_entry and at_dispatch are both the state at the
\* call; the records of CoreAgent.feed's calls are left as they are.
TaskCall(name, txt, c0, c2) ==
  /\ Install(c2)
  /\ op' = name
  /\ buf' = txt
  /\ at_entry' = Prog(c0)
  /\ at_dispatch' = Prog(c0)
  /\ UNCHANGED << boot_sent, boot_script, save_script, save_cycle, polled_twice, mem, llm >>

\* SaveTask.feed(txt), called while SaveTask is Done: CoreAgent.feed calls it
\* only while it is Active
SaveTask_feed_call(txt) ==
  /\ save_state = "DONE"
  /\ \E long \in LongOutcomes :
       \E c0 \in {Cur(txt, long, 0)} :
         \E c2 \in {SaveTask_feed(c0, txt)} :
           TaskCall("SaveTask.feed", txt, c0, c2)

\* SaveTask.reset(); op tells whether the call before it was the same reset
SaveTask_reset_call ==
  \E c0 \in {Cur(buf, FALSE, 0)} :
    \E c2 \in {SaveTask_reset(c0)} :
      TaskCall(IF op \in {"SaveTask.reset", "SaveTask.reset again"}
               THEN "SaveTask.reset again" ELSE "SaveTask.reset", buf, c0, c2)

\* ArenaTask.reset()
ArenaTask_reset_call ==
  \E c0 \in {Cur(buf, FALSE, 0)} :
    \E c2 \in {ArenaTask_reset(c0)} :
      TaskCall(IF op \in {"ArenaTask.reset", "ArenaTask.reset again"}
               THEN "ArenaTask.reset again" ELSE "ArenaTask.reset", buf, c0, c2)

SaveFeedCall == \E txt \in Screens : SaveTask_feed_call(txt)

\* CoreAgent.feed(txt) without the records kept over several calls
FeedScreenAlone(txt) ==
  /\ \E long \in LongOutcomes :
       \E c0 \in {Cur(txt, long, 0)} :
         \E c1 \in {CoreAgent_resets(c0, txt)} :
           \E c2 \in {CoreAgent_dispatch(c1, txt)} : Returned(txt, c0, c1, c2)
  /\ UNCHANGED << boot_sent, boot_script, save_script, save_cycle, polled_twice >>

FeedAlone == \E txt \in Screens : FeedScreenAlone(txt)

NextCalls ==
  FeedAlone \/ MemAddEvent \/ SaveFeedCall \/ SaveTask_reset_call \/ ArenaTask_reset_call

SpecCalls == Init /\ [][NextCalls]_vars

\* the program state now
Now == Prog(Cur(<<>>, FALSE, 0))

\* ------------------------------------------------------- MemoryManager
SHORT_INTERVAL == 20
LONG_INTERVAL == 60
MAX_SHORT_SUMMARIES == 5

\* the add_event calls followed
MaxTurns == 121

\* lines 178-210: the short-term summary; short_ok tells whether _ask
\* returned a summary.  m is mem together with request_save.
ShortSummary(m, short_ok) ==
  IF m.turns % SHORT_INTERVAL = 0 /\ m.buffer > 0 /\ short_ok
  THEN [m EXCEPT !.short_summary_history =
                     IF @ < MAX_SHORT_SUMMARIES THEN @ + 1 ELSE @,
                 !.buffer = 0]
  ELSE m

\* request_save is raised whenever the long-term summary is due
LongSummary_whenever_due(m, long_ok, disk_ok) ==
  IF m.turns % LONG_INTERVAL = 0 /\ m.short_summary_history > 0
  THEN IF long_ok /\ disk_ok
       THEN [m EXCEPT !.asked = "ok", !.long_summary = TRUE,
                      !.saved = TRUE, !.request_save = TRUE]
       ELSE [m EXCEPT !.asked = IF long_ok THEN "ok" ELSE "failed",
                      !.long_summary = IF long_ok THEN TRUE ELSE @,
                      !.failed = long_ok, !.request_save = TRUE]
  ELSE m

\* lines 212-287: the long-term summary; long_ok tells whether _ask returned
\* one, disk_ok whether _save_disk wrote the memory file (it raises when it
\* cannot, and request_save = True is not reached).  The strategic summary
\* asked for in between changes none of the fields followed here.
LongSummary(m, long_ok, disk_ok) ==
  IF m.turns % LONG_INTERVAL = 0 /\ m.short_summary_history > 0
  THEN IF long_ok
       THEN IF disk_ok
            THEN [m EXCEPT !.asked = "ok", !.long_summary = TRUE,
                           !.saved = TRUE, !.request_save = TRUE]
            ELSE [m EXCEPT !.asked = "ok", !.long_summary = TRUE, !.failed = TRUE]
       ELSE [m EXCEPT !.asked = "failed"]
  ELSE m

\* MemoryManager.add_event(desc)
MemoryManager_add_event(short_ok, long_ok, disk_ok) ==
  /\ mem.turns < MaxTurns
  /\ \E m0 \in { [mem EXCEPT !.turns = @ + 1, !.buffer = @ + 1, !.asked = "no",
                               !.saved = FALSE, !.failed = FALSE]
                  @@ [request_save |-> request_save] } :
       \E m1 \in {ShortSummary(m0, short_ok)} :
         \E m2 \in {LongSummary(m1, long_ok, disk_ok)} :
           /\ mem' = [f \in DOMAIN mem |-> m2[f]]
           /\ request_save' = m2.request_save
  /\ op' = "MemoryManager.add_event"
  /\ at_entry' = Now
  /\ at_dispatch' = Now
  /\ UNCHANGED << boot_state, boot_s, save_state, save_s, arena_state, arena_s,
                  loaded_save, in_kingdom_menu, needs_save, in_arena_fight,
                  intro_origin_text, intro_conditions_text >>
  /\ UNCHANGED << buf, sent, tried, events, logged, fed, raised,
                  boot_sent, boot_script, save_script, save_cycle, polled_twice, llm >>

MemAddEventCall ==
  \E short_ok, long_ok, disk_ok \in BOOLEAN :
     MemoryManager_add_event(short_ok, long_ok, disk_ok)

\* SaveTask.feed lines 277-279: the request is taken over into needs_save
MemRequestTaken ==
  /\ request_save
  /\ request_save' = FALSE /\ needs_save' = TRUE
  /\ op' = "sync"
  /\ UNCHANGED << boot_state, boot_s, save_state, save_s, arena_state, arena_s,
                  loaded_save, in_kingdom_menu, in_arena_fight,
                  intro_origin_text, intro_conditions_text >>
  /\ UNCHANGED obsVars

NextMem == MemAddEventCall \/ MemRequestTaken

SpecMem == Init /\ [][NextMem]_vars

\* ---------------------------------------------------------- LLMManager
MAX_RETRIES == 3
REFLECTION_INTERVAL == 20

\* the steps followed
MaxSteps == 41

\* What generate_content does when asked for a tool call: it raises
\* ("error"), or returns a reply with no candidate ("empty"), with a
\* candidate that has no content ("blocked"), or with a candidate whose
\* parts hold no, one or two function calls.
Replies == {"error", "empty", "blocked", "none", "one", "many"}

\* _perform_reflection, the turn counted: the model is asked once when
\* there is a history to reflect on; an error of the call is caught.
Reflect(l) ==
  [l EXCEPT !.asked = IF l.reflection_history > 0 THEN 1 ELSE 0,
            !.turn = @ + 1, !.outcome = "reflected"]

\* _process_turn: the tool is executed, the turn recorded and counted
\* (_execute_tool catches what the tool raises)
ProcessTurn(l, reply) ==
  [l EXCEPT !.executed = @ + 1, !.reply = reply,
            !.reflection_history = IF @ < REFLECTION_INTERVAL THEN @ + 1 ELSE @,
            !.turn = @ + 1, !.outcome = "succeeded"]

\* lines 151-165: the attempts of a regular turn, from the attempt-th on;
\* replies[attempt] is what the model does at that attempt.
\* _extract_func_call reads reply.candidates[0].content.parts: on a
\* candidate without content the attribute error leaves step.
RECURSIVE Attempts(_, _, _)
Attempts(l, replies, attempt) ==
  IF attempt > MAX_RETRIES
  THEN [l EXCEPT !.turn = @ + 1, !.outcome = "failed"]
  ELSE LET r  == replies[attempt]
           l1 == [l EXCEPT !.asked = @ + 1]
       IN  CASE r = "error"   -> Attempts(l1, replies, attempt + 1)
             [] r = "blocked" -> [l1 EXCEPT !.outcome = "raised"]
             [] r = "one"     -> ProcessTurn(l1, r)
             [] OTHER         -> Attempts(l1, replies, attempt + 1)

\* LLMManager.step(context)
LLMManager_step(replies) ==
  /\ llm.turn < MaxSteps
  /\ \E l0 \in { [llm EXCEPT !.before = llm.turn, !.asked = 0, !.executed = 0,
                               !.reply = "", !.outcome = ""] } :
       llm' = IF l0.turn > 0 /\ l0.turn % REFLECTION_INTERVAL = 0
              THEN Reflect(l0)
              ELSE Attempts(l0, replies, 1)
  /\ op' = "LLMManager.step"
  /\ UNCHANGED progVars
  /\ UNCHANGED << buf, sent, tried, events, logged, fed, at_entry, at_dispatch, raised,
                  boot_sent, boot_script, save_script, save_cycle, polled_twice, mem >>

Step == \E r1, r2, r3 \in Replies : LLMManager_step(<< r1, r2, r3 >>)

SpecLLM == Init /\ [][Step]_vars

\* ---------------------------------------------------- the sink that fails
\* the most sink calls one CoreAgent.feed makes (_enable_autorecruit_new_game)
MaxFail == 5

\* CoreAgent.feed(txt) with a sink whose fail_at-th call of this feed raises
\* (0: none does).  The error leaves feed and is fatal to its caller: no feed
\* follows one that raised.
FeedScreenFail(txt) ==
  /\ ~raised
  /\ \E long \in LongOutcomes : \E fail_at \in 0..MaxFail :
       \E c0 \in {Cur(txt, long, fail_at)} :
         \E c1 \in {CoreAgent_resets(c0, txt)} :
           \E c2 \in {CoreAgent_dispatch(c1, txt)} : Returned(txt, c0, c1, c2)
  /\ UNCHANGED << boot_sent, boot_script, save_script, save_cycle, polled_twice >>

FeedFail == \E txt \in Screens : FeedScreenFail(txt)

NextFail == FeedFail \/ MemAddEvent

SpecFail == Init /\ [][NextFail]_vars

\* ================================================================ claims
\* the commands of one task among those of the last call
RECURSIVE Of(_, _)
Of(cmds, task) ==
  IF cmds = <<>> THEN <<>>
  ELSE IF Head(cmds).task = task THEN <<Head(cmds)>> \o Of(Tail(cmds), task)
  ELSE Of(Tail(cmds), task)

Key(task)       == Cmd(task, "key", 0, " ", FALSE, TRUE)
Number(task, n) == Cmd(task, "number", n, "", TRUE, TRUE)

C2_BootAlone ==
  (op = "feed" /\ at_dispatch.boot_state = "ACTIVE") =>
     /\ fed = <<"Boot">>
     /\ save_state = at_entry.save_state /\ save_s = at_entry.save_s
     /\ arena_state = at_entry.arena_state /\ arena_s = at_entry.arena_s
     /\ Of(sent, "Save") = <<>> /\ Of(sent, "Arena") = <<>>

\* the call in which a new-game boot completes: SaveTask is Active in WAIT
\* with needs_save and in_kingdom_menu both true, and was not fed
C2_Witness ==
  /\ op = "feed" /\ at_dispatch.boot_state = "ACTIVE" /\ boot_state = "DONE"
  /\ needs_save /\ in_kingdom_menu /\ save_state = "ACTIVE" /\ save_s = "WAIT"
  /\ fed = <<"Boot">>

\* ---- C3
\* the guards of the sub-states, as the handlers test them
BootGuard(c, txt) ==
  CASE c.boot_s = "START"                          -> MAIN_MENU_RE(txt)
    [] c.boot_s = "LOAD_MENU"                      -> LOAD_MENU_RE(txt)
    [] c.boot_s = "HANDLE_LOAD_EXIT_ERROR"         -> PRESS_ANY_KEY_RE(txt)
    [] c.boot_s = "WAIT_FOR_MAIN_MENU_AFTER_ERROR" -> MAIN_MENU_RE(txt)
    [] c.boot_s = "ORIGIN"                         -> PRESS_ANY_KEY_RE(txt)
    [] c.boot_s = "CAPTURE_CONDITIONS"             -> PRESS_ANY_KEY_RE(txt)
    [] c.boot_s = "SKIP_CEREMONY"                  -> Has(txt, LCeremony)
    [] c.boot_s = "SKIP_CROLL"                     -> Has(txt, LCroll)
    [] c.boot_s = "SKIP_WAIT"                      -> PRESS_ANY_KEY_RE(txt)
    [] c.boot_s = "READY"                          -> KINGDOM_MENU_RE(txt)
    [] c.boot_s = "CHECK_AUTORECRUIT"              ->
         AUTORECRUIT_SETUP_PROMPT_RE(txt) \/ AUTORECRUIT_ALREADY_ON_RE(txt)

SaveGuard(c, txt) ==
  CASE c.save_s = "WAIT"    -> c.needs_save /\ c.in_kingdom_menu
    [] c.save_s = "EXTRAS"  -> Has(txt, LSaveGame)
    [] c.save_s = "NAME"    -> Has(txt, LSaveName)
    [] c.save_s = "CONFIRM" -> PRESS_ANY_KEY_RE(txt)

ArenaGuard(c, txt) ==
  CASE c.arena_s = "WAITING_FOR_FIGHT" -> ARENA_FIGHT_START_RE(FirstLine(txt))
    [] c.arena_s = "FIGHTING"          -> PRESS_ANY_KEY_RE(txt) \/ KINGDOM_MENU_RE(txt)
    [] c.arena_s = "FIGHT_OVER"        -> FALSE

\* run-states, sub-states and AgentContext
FrameNames == ProgNames \ {"request_save"}

\* b is a with no task state or context change and no further command
NoOp(a, b) == (\A f \in FrameNames : a[f] = b[f]) /\ a.sent = b.sent

\* the task feeds of the next CoreAgent.feed(txt) from the current state,
\* each compared with the configuration it was called on; skipBoot names the
\* BootTask sub-states left out of the statement
TaskFeedsFramed(txt, skipBoot) ==
  LET c1 == CoreAgent_resets(Cur(txt, FALSE, 0), txt)
      cb == DispatchBoot(c1, txt)
      cs == DispatchSave(cb, txt)
      ca == DispatchArena(cs, txt)
  IN  /\ ("Boot" \in {cb.fed[i] : i \in 1..Len(cb.fed)}
            /\ c1.boot_s \notin skipBoot /\ ~BootGuard(c1, txt)) => NoOp(c1, cb)
      /\ ("Save" \in {cs.fed[i] : i \in 1..Len(cs.fed)}
            /\ ~SaveGuard(cb, txt)) => NoOp(cb, cs)
      /\ ("Arena" \in {ca.fed[i] : i \in 1..Len(ca.fed)}
            /\ ~ArenaGuard(cs, txt)) => NoOp(cs, ca)

\* C3 as claimed: from every reachable state, a task fed a snapshot that
\* satisfies no guard of its sub-state changes no run-state, sub-state or
\* context field and sends nothing.
C3_Original == \A txt \in Screens : TaskFeedsFramed(txt, {})

\* C3 amended: the same, except for BootTask in CHECK_AUTORECRUIT, whose
\* handler has an unguarded fallback (a snapshot matching neither auto-recruit
\* pattern sets in_kingdom_menu and marks BootTask Done).
C3_NoGuardNoOp == \A txt \in Screens : TaskFeedsFramed(txt, {"CHECK_AUTORECRUIT"})

\* SaveTask in NAME and ArenaTask in FIGHTING were both fed a snapshot that
\* matches neither guard, and nothing changed
C3_Witness ==
  /\ op = "feed" /\ fed = <<"Save", "Arena">>
  /\ at_dispatch.save_s = "NAME" /\ at_dispatch.arena_s = "FIGHTING"
  /\ ~SaveGuard(at_dispatch, buf) /\ ~ArenaGuard(at_dispatch, buf)
  /\ sent = <<>> /\ save_s = "NAME" /\ arena_s = "FIGHTING"

\* ---- C4
\* C4 as claimed: after the four snapshots of SaveScript, whatever screen
\* carried the Extras label, exactly one "Game saved" event was recorded,
\* needs_save is false and SaveTask is Done.
C4_Original ==
  save_script.pos = 4 =>
     save_script.saved = 1 /\ ~needs_save /\ save_state = "DONE"

\* C4 amended: the same when the first of the four snapshots, the screen with
\* the Extras label, also matches the kingdom-menu pattern.
C4_SaveSequence ==
  (save_script.pos = 4 /\ save_script.km) =>
     save_script.saved = 1 /\ ~needs_save /\ save_state = "DONE"

\* the four snapshots were fed, the first a kingdom menu, and the game was saved
C4_Witness ==
  /\ op = "feed" /\ save_script.pos = 4 /\ save_script.km
  /\ save_script.saved = 1 /\ events = <<"Game saved">> /\ save_state = "DONE"

C6_RequestPending ==
  /\ boot_state = "DONE" /\ request_save /\ ~needs_save
  /\ (save_state = "DONE" \/ save_s = "WAIT")

C6_RequestConsumed == C6_RequestPending ~> (needs_save /\ ~request_save)

\* C7: ArenaTask fed in WAITING_FOR_FIGHT / Waiting, with BootTask Done, a
\* snapshot whose first line is a fight start: in_arena_fight is true,
\* ArenaTask is in FIGHTING and Active, and it sent exactly one dismiss key.
C7_FightStart ==
  ( /\ op = "feed" /\ at_dispatch.boot_state = "DONE"
    /\ at_dispatch.arena_s = "WAITING_FOR_FIGHT" /\ at_dispatch.arena_state = "WAITING"
    /\ buf # <<>> /\ Head(buf) = LFight )
  => /\ in_arena_fight
     /\ arena_s = "FIGHTING" /\ arena_state = "ACTIVE"
     /\ Of(sent, "Arena") = << Key("Arena") >>

C7_Witness ==
  /\ op = "feed" /\ at_dispatch.boot_state = "DONE"
  /\ at_dispatch.arena_s = "WAITING_FOR_FIGHT" /\ at_dispatch.arena_state = "WAITING"
  /\ buf = <<LFight>>
  /\ in_arena_fight /\ arena_s = "FIGHTING" /\ sent = << Key("Arena") >>

\* C8: ArenaTask fed in FIGHTING a snapshot with the press-any-key prompt and
\* the kingdom-menu marker: it sent exactly one dismiss key, in_arena_fight is
\* false, ArenaTask is in FIGHT_OVER and Done.
C8_FightEnd ==
  ( /\ op = "feed" /\ at_dispatch.arena_s = "FIGHTING"
    /\ PRESS_ANY_KEY_RE(buf) /\ KINGDOM_MENU_RE(buf) )
  => /\ Of(sent, "Arena") = << Key("Arena") >>
     /\ ~in_arena_fight
     /\ arena_s = "FIGHT_OVER" /\ arena_state = "DONE"

C8_Witness ==
  /\ op = "feed" /\ at_dispatch.arena_s = "FIGHTING" /\ at_entry.in_arena_fight
  /\ buf = <<LPak, LKingdom>>
  /\ ~in_arena_fight /\ arena_state = "DONE" /\ Of(sent, "Arena") = << Key("Arena") >>

\* C9: a CoreAgent.feed that begins with ArenaTask Done has reset it to
\* Waiting / WAITING_FOR_FIGHT with in_arena_fight false by dispatch time,
\* whatever the snapshot; ArenaTask is never Done at dispatch.
C9_ArenaRearm ==
  op = "feed" =>
     /\ at_dispatch.arena_state # "DONE"
     /\ at_entry.arena_state = "DONE"
           => /\ at_dispatch.arena_state = "WAITING"
              /\ at_dispatch.arena_s = "WAITING_FOR_FIGHT"
              /\ ~at_dispatch.in_arena_fight

\* a finished fight was re-armed by a kingdom-menu snapshot
C9_Witness ==
  /\ op = "feed" /\ at_entry.arena_state = "DONE" /\ at_entry.arena_s = "FIGHT_OVER"
  /\ KINGDOM_MENU_RE(buf)
  /\ at_dispatch.arena_state = "WAITING" /\ arena_s = "WAITING_FOR_FIGHT"

\* ---- C10
Plain(cmds) == [i \in 1..Len(cmds) |-> << cmds[i].kind, cmds[i].n, cmds[i].text, cmds[i].enter >>]

PNumber(n) == << "number", n, "", TRUE >>
PKey       == << "key", 0, " ", FALSE >>

\* C10: when the calls so far are exactly the ten snapshots of NewGameScript,
\* the sink has received 2, "x"+Enter, key, 3, key, key, 2, 2, key, 1, 7, 1,
\* 0, 0 in that order, loaded_save is false, needs_save is true and BootTask
\* is Done.
C10_NewGameBoot ==
  boot_script = 10 =>
     /\ Plain(boot_sent) =
          << PNumber(2), << "text", 0, "x", TRUE >>, PKey, PNumber(3), PKey, PKey,
             PNumber(2), PNumber(2), PKey,
             PNumber(1), PNumber(7), PNumber(1), PNumber(0), PNumber(0) >>
     /\ Plain(sent) = << PNumber(1), PNumber(7), PNumber(1), PNumber(0), PNumber(0) >>
     /\ ~loaded_save /\ needs_save /\ boot_state = "DONE"

C10_Witness ==
  /\ op = "feed" /\ boot_script = 10 /\ boot_state = "DONE"
  /\ KINGDOM_MENU_RE(buf) /\ Len(boot_sent) = 14

\* ---- C11
\* the new-game sub-states after CAPTURE_CONDITIONS
PastConditions == {"SKIP_CEREMONY", "SKIP_CROLL", "SKIP_WAIT", "READY"}

\* the new-game sub-states after ORIGIN
PastOrigin == {"CAPTURE_CONDITIONS"} \cup PastConditions

\* C11: once a new-game boot has been fed a press-any-key screen in ORIGIN and
\* one in CAPTURE_CONDITIONS, intro_origin_text and intro_conditions_text are
\* both non-empty and differ from each other.
C11_NarrativesDistinct ==
  (~loaded_save /\ boot_s \in PastConditions) =>
     /\ intro_origin_text # <<>> /\ intro_conditions_text # <<>>
     /\ intro_origin_text # intro_conditions_text

\* C12: intro_origin_text is non-empty only after BootTask left ORIGIN by its
\* capture, intro_conditions_text only after it left CAPTURE_CONDITIONS by its
\* capture; a call changes either text only in that transition, from empty,
\* so each is written at most once.
C12_NarrativeOnce ==
  /\ intro_origin_text # <<>> => (~loaded_save /\ boot_s \in PastOrigin)
  /\ intro_conditions_text # <<>> => (~loaded_save /\ boot_s \in PastConditions)
  /\ intro_origin_text # at_entry.intro_origin_text =>
        /\ at_entry.intro_origin_text = <<>>
        /\ at_entry.boot_s = "ORIGIN" /\ boot_s = "CAPTURE_CONDITIONS"
        /\ intro_origin_text = buf
  /\ intro_conditions_text # at_entry.intro_conditions_text =>
        /\ at_entry.intro_conditions_text = <<>>
        /\ at_entry.boot_s = "CAPTURE_CONDITIONS" /\ boot_s = "SKIP_CEREMONY"
        /\ intro_conditions_text = buf

\* both narratives were captured and a later call, after boot, left them alone
C12_Witness ==
  /\ op = "feed" /\ at_entry.boot_state = "DONE"
  /\ intro_origin_text # <<>> /\ intro_conditions_text # <<>>
  /\ intro_origin_text # intro_conditions_text
  /\ PRESS_ANY_KEY_RE(buf)

\* C13: loaded_save changes only in the call in which BootTask leaves
\* LOAD_MENU; every later call leaves it as that call fixed it: true on the
\* loaded-game path, false on the new-game path.
C13_LoadedSaveFixed ==
  /\ loaded_save # at_entry.loaded_save =>
        (at_entry.boot_s = "LOAD_MENU" /\ boot_s = "READY")
  /\ boot_s \in {"START", "LOAD_MENU", "HANDLE_LOAD_EXIT_ERROR",
                 "WAIT_FOR_MAIN_MENU_AFTER_ERROR", "ORIGIN", "CAPTURE_CONDITIONS",
                 "SKIP_CEREMONY", "SKIP_CROLL", "SKIP_WAIT"} => ~loaded_save
  /\ boot_s = "CHECK_AUTORECRUIT" => loaded_save
  /\ (boot_state = "DONE" /\ intro_origin_text # <<>>) => ~loaded_save

\* after a loaded-game boot a fight is over and loaded_save is still true
C13_Witness ==
  /\ op = "feed" /\ at_entry.boot_state = "DONE" /\ loaded_save
  /\ at_entry.arena_s = "FIGHTING" /\ arena_state = "DONE"

\* ---- C14
\* the elements of a sequence
Range(seq) == {seq[i] : i \in 1..Len(seq)}

\* C14: a CoreAgent.feed that begins with BootTask Done leaves it Done in the
\* same sub-state and does not feed it: BootTask sends no command, the only
\* events of the call are SaveTask's, and the context fields BootTask writes
\* alone (loaded_save and the two narratives) are unchanged.
C14_BootDoneForGood ==
  (op = "feed" /\ at_entry.boot_state = "DONE") =>
     /\ boot_state = "DONE" /\ boot_s = at_entry.boot_s
     /\ "Boot" \notin Range(fed)
     /\ Of(sent, "Boot") = <<>>
     /\ Range(events) \subseteq {"Game saved"}
     /\ loaded_save = at_entry.loaded_save
     /\ intro_origin_text = at_entry.intro_origin_text
     /\ intro_conditions_text = at_entry.intro_conditions_text

\* after boot, a kingdom-menu snapshot (on which BootTask in READY would act)
\* was fed to SaveTask and ArenaTask only
C14_Witness ==
  /\ op = "feed" /\ at_entry.boot_state = "DONE" /\ at_entry.boot_s = "READY"
  /\ KINGDOM_MENU_RE(buf) /\ fed = <<"Save", "Arena">>
  /\ boot_state = "DONE"

\* ---- C15
MenuLines(lg) ==
  Count(lg, "AGENT: Entered Kingdom Menu") + Count(lg, "AGENT: Exited Kingdom Menu")

\* C15: a CoreAgent.feed logs a kingdom-menu line exactly when the snapshot's
\* classification differs from the stored in_kingdom_menu and in_arena_fight
\* is false at that moment, "Entered" for a kingdom menu and "Exited"
\* otherwise; and feeding a kingdom-menu snapshot once more right after it
\* was fed logs no "Entered" line.
C15_MenuLogOnEdge ==
  op = "feed" =>
     /\ MenuLines(logged) =
          IF KINGDOM_MENU_RE(buf) # at_entry.in_kingdom_menu /\ ~at_entry.in_arena_fight
          THEN 1 ELSE 0
     /\ Count(logged, "AGENT: Entered Kingdom Menu") > 0 => KINGDOM_MENU_RE(buf)
     /\ Count(logged, "AGENT: Exited Kingdom Menu") > 0 => ~KINGDOM_MENU_RE(buf)
     /\ KINGDOM_MENU_RE(buf) =>
          \A long \in BOOLEAN :
             LET c0 == Cur(buf, long, 0)
                 c2 == CoreAgent_dispatch(CoreAgent_resets(c0, buf), buf)
             IN  Count(c2.logged, "AGENT: Entered Kingdom Menu") = 0

\* the kingdom menu was entered in this call, with one line, and no task acted
C15_Witness ==
  /\ op = "feed" /\ at_entry.boot_state = "DONE"
  /\ ~at_entry.in_kingdom_menu /\ buf = <<LKingdom>> /\ sent = <<>>
  /\ Count(logged, "AGENT: Entered Kingdom Menu") = 1

\* ---- C16
SaveCommands ==
  << PNumber(13), PNumber(1), << "text", 0, save_name, TRUE >>, PKey, PNumber(0) >>

\* C16: the commands SaveTask has sent in the cycle under way are the part
\* of 13, 1, save name, key, 0 that its sub-state has reached, all five once
\* the cycle is complete; a call in which SaveTask sends is one in which its
\* sub-state or run-state moves.
C16_SaveCommands ==
  /\ Plain(save_cycle) =
        CASE save_state = "DONE" -> SaveCommands
          [] save_state # "DONE" /\ save_s = "WAIT"    -> <<>>
          [] save_state # "DONE" /\ save_s = "EXTRAS"  -> SubSeq(SaveCommands, 1, 1)
          [] save_state # "DONE" /\ save_s = "NAME"    -> SubSeq(SaveCommands, 1, 2)
          [] save_state # "DONE" /\ save_s = "CONFIRM" -> SubSeq(SaveCommands, 1, 3)
  /\ Of(sent, "Save") # <<>> =>
        (save_s # at_dispatch.save_s \/ save_state # at_dispatch.save_state)

\* a save cycle was completed in this call
C16_Witness ==
  /\ op = "feed" /\ at_dispatch.save_s = "CONFIRM" /\ save_state = "DONE"
  /\ Len(save_cycle) = 5 /\ Plain(sent) = << PKey, PNumber(0) >>

FedCheckAutorecruit ==
  at_dispatch.boot_state = "ACTIVE" /\ at_dispatch.boot_s = "CHECK_AUTORECRUIT"

\* in_kingdom_menu is the classification of the snapshot just fed, and it
\* changed in the call only if that classification differed from it
MenuFlagFollows ==
  /\ in_kingdom_menu = KINGDOM_MENU_RE(buf)
  /\ in_kingdom_menu # at_entry.in_kingdom_menu =>
        KINGDOM_MENU_RE(buf) # at_entry.in_kingdom_menu

\* C18 as claimed: after every CoreAgent.feed in_kingdom_menu equals whether
\* the snapshot matched the kingdom-menu pattern, and it changed only on an
\* edge of that classification.
C18_Original == op = "feed" => MenuFlagFollows

\* C18 amended: the same for every call but the one that feeds BootTask in
\* CHECK_AUTORECRUIT, after which in_kingdom_menu is true whatever the
\* snapshot was.
C18_MenuFlag ==
  op = "feed" => IF FedCheckAutorecruit THEN in_kingdom_menu ELSE MenuFlagFollows

\* after boot the kingdom menu was left: the flag fell with the snapshot
C18_Witness ==
  /\ op = "feed" /\ at_entry.boot_state = "DONE"
  /\ at_entry.in_kingdom_menu /\ ~KINGDOM_MENU_RE(buf) /\ ~in_kingdom_menu

\* ---- C19
\* the order of BootTask's sub-states
BootOrder ==
  << "START", "LOAD_MENU", "HANDLE_LOAD_EXIT_ERROR", "WAIT_FOR_MAIN_MENU_AFTER_ERROR",
     "ORIGIN", "CAPTURE_CONDITIONS", "SKIP_CEREMONY", "SKIP_CROLL", "SKIP_WAIT",
     "READY", "CHECK_AUTORECRUIT" >>

Rank(st) == CHOOSE i \in 1..Len(BootOrder) : BootOrder[i] = st

\* C19: no call moves BootTask's sub-state backwards, and BootTask sends
\* commands only in a call that moves it to a later sub-state or to Done, so
\* the commands of a sub-state are sent at most once.
C19_BootForward ==
  /\ Rank(at_entry.boot_s) <= Rank(boot_s)
  /\ Of(sent, "Boot") # <<>> =>
        \/ Rank(at_entry.boot_s) < Rank(boot_s)
        \/ at_entry.boot_state = "ACTIVE" /\ boot_state = "DONE"
  /\ boot_s = "HANDLE_LOAD_EXIT_ERROR" => at_entry.boot_s \in {"LOAD_MENU", boot_s}
  /\ boot_s = "CHECK_AUTORECRUIT" => at_entry.boot_s \in {"READY", boot_s}

\* a new-game BootTask in READY was fed a press-any-key snapshot, for which
\* READY does not wait: it stayed in READY and sent nothing
C19_Witness ==
  /\ op = "feed" /\ at_entry.boot_state = "ACTIVE" /\ at_entry.boot_s = "READY"
  /\ ~loaded_save /\ PRESS_ANY_KEY_RE(buf) /\ boot_s = "READY" /\ sent = <<>>

\* ---- C20
\* C20: when a boot run is complete, the session that was fed each of its
\* snapshots twice in a row has sent the same BootTask commands and has the
\* same BootTask run-state and sub-state, the same loaded_save and the same
\* two narratives as the session that was fed each snapshot once.
C20_DuplicatedPolling ==
  (boot_state = "DONE" /\ polled_twice.live) =>
     /\ polled_twice.sent = boot_sent
     /\ polled_twice.prog.boot_state = "DONE"
     /\ polled_twice.prog.boot_s = boot_s
     /\ polled_twice.prog.loaded_save = loaded_save
     /\ polled_twice.prog.intro_origin_text = intro_origin_text
     /\ polled_twice.prog.intro_conditions_text = intro_conditions_text

\* ---- C21
\* one line of a snapshot against ^\s+\S+\s+vs\.\s+\S+
LineStartsFight(line) == line = LFight

\* C21: ArenaTask fed in WAITING_FOR_FIGHT a snapshot whose first line is not
\* a fight start stays in WAITING_FOR_FIGHT, with in_arena_fight unset and no
\* command sent, whatever the later lines of the snapshot are.
C21_FirstLineOnly ==
  ( /\ op = "feed" /\ at_dispatch.arena_s = "WAITING_FOR_FIGHT"
    /\ (buf = <<>> \/ ~LineStartsFight(Head(buf))) )
  => /\ arena_s = "WAITING_FOR_FIGHT"
     /\ ~in_arena_fight
     /\ Of(sent, "Arena") = <<>>

\* ---- C22
\* C22: BootTask fed in LOAD_MENU a load-menu snapshot that lists the save
\* sends the save name as text, sets loaded_save and is in READY.  With
\* loaded_save set it is only ever in READY or CHECK_AUTORECRUIT, both
\* narratives are empty, no call records the quick-start event, and no call
\* fed to BootTask leaves needs_save set.  Fed the kingdom menu in READY it
\* sends number 1, then number 7, and is in CHECK_AUTORECRUIT.
C22_LoadedBoot ==
  /\ ( /\ op = "feed" /\ at_entry.boot_state = "ACTIVE" /\ at_entry.boot_s = "LOAD_MENU"
       /\ LOAD_MENU_RE(buf) /\ SaveNameListed(buf) )
     => /\ sent = << Cmd("Boot", "text", 0, save_name, TRUE, TRUE) >>
        /\ loaded_save
        /\ boot_state = "ACTIVE" /\ boot_s = "READY"
  /\ loaded_save
     => /\ boot_s \in {"READY", "CHECK_AUTORECRUIT"}
        /\ intro_origin_text = <<>> /\ intro_conditions_text = <<>>
        /\ "Quick-start (no save)" \notin Range(events)
        /\ at_entry.boot_state = "ACTIVE" => ~needs_save
  /\ ( /\ op = "feed" /\ at_entry.boot_state = "ACTIVE" /\ at_entry.boot_s = "READY"
       /\ at_entry.loaded_save /\ KINGDOM_MENU_RE(buf) )
     => /\ sent = << Number("Boot", 1), Number("Boot", 7) >>
        /\ boot_state = "ACTIVE" /\ boot_s = "CHECK_AUTORECRUIT"

\* the loaded save's boot has come from the load menu to CHECK_AUTORECRUIT
C22_Witness ==
  /\ op = "feed" /\ at_entry.boot_s = "READY" /\ at_entry.loaded_save
  /\ boot_s = "CHECK_AUTORECRUIT" /\ ~needs_save
  /\ Plain(boot_sent) = << PNumber(2), << "text", 0, save_name, TRUE >>, PNumber(1), PNumber(7) >>

\* ---- C23
\* C23: BootTask fed in CHECK_AUTORECRUIT is Done when the call returns, with
\* in_kingdom_menu set.  On the setup prompt it sent numbers 1, 0, 0 and
\* recorded one "enabled (loaded)" event; on the already-on message numbers
\* 0, 0 and one "verified on" event; on any other snapshot no command and no
\* event, and it logged a WARN line.
C23_CheckAutorecruit ==
  ( op = "feed" /\ at_entry.boot_state = "ACTIVE" /\ at_entry.boot_s = "CHECK_AUTORECRUIT" )
  => /\ boot_state = "DONE" /\ in_kingdom_menu
     /\ fed = << "Boot" >>
     /\ CASE AUTORECRUIT_SETUP_PROMPT_RE(buf) ->
               /\ sent = << Number("Boot", 1), Number("Boot", 0), Number("Boot", 0) >>
               /\ events = << "Auto-recruit enabled (Loaded Game)" >>
          [] AUTORECRUIT_ALREADY_ON_RE(buf) /\ ~AUTORECRUIT_SETUP_PROMPT_RE(buf) ->
               /\ sent = << Number("Boot", 0), Number("Boot", 0) >>
               /\ events = << "Auto-recruit verified ON (Loaded Game)" >>
          [] OTHER ->
               /\ sent = <<>> /\ events = <<>>
               /\ "WARN: Boot [Load] - Unknown auto-recruit screen" \in Range(logged)

\* the boot of a loaded save was completed by a snapshot that shows neither
\* auto-recruit screen
C23_Witness ==
  /\ op = "feed" /\ at_entry.boot_state = "ACTIVE" /\ at_entry.boot_s = "CHECK_AUTORECRUIT"
  /\ ~AUTORECRUIT_SETUP_PROMPT_RE(buf) /\ ~AUTORECRUIT_ALREADY_ON_RE(buf)
  /\ ~KINGDOM_MENU_RE(buf)
  /\ boot_state = "DONE" /\ in_kingdom_menu /\ sent = <<>>

\* ---- C24
\* C24: ArenaTask fed in FIGHTING a snapshot with the press-any-key prompt
\* and without the kingdom-menu marker sent exactly one dismiss key and is
\* still in FIGHTING and Active with in_arena_fight set, so that the next
\* such snapshot finds it as this one did.
C24_FightContinues ==
  ( /\ op = "feed" /\ at_dispatch.arena_s = "FIGHTING"
    /\ PRESS_ANY_KEY_RE(buf) /\ ~KINGDOM_MENU_RE(buf) )
  => /\ Of(sent, "Arena") = << Key("Arena") >>
     /\ arena_s = "FIGHTING" /\ arena_state = "ACTIVE" /\ in_arena_fight
     /\ at_dispatch.arena_state = "ACTIVE" /\ at_dispatch.in_arena_fight

\* the fight was already under way when the call began
C24_Witness ==
  /\ op = "feed" /\ at_entry.arena_s = "FIGHTING" /\ at_entry.in_arena_fight
  /\ buf = <<LPak>>
  /\ sent = << Key("Arena") >> /\ arena_s = "FIGHTING" /\ in_arena_fight

\* ---- C25
\* C25: ArenaTask fed in FIGHTING a snapshot with the kingdom-menu marker and
\* without the press-any-key prompt sent no command and logged the WARN
\* line; in_arena_fight is unset, ArenaTask is in FIGHT_OVER and Done.
C25_FightAnomaly ==
  ( /\ op = "feed" /\ at_dispatch.arena_s = "FIGHTING"
    /\ KINGDOM_MENU_RE(buf) /\ ~PRESS_ANY_KEY_RE(buf) )
  => /\ Of(sent, "Arena") = <<>>
     /\ "WARN: Arena - Kingdom menu detected unexpectedly during fight" \in Range(logged)
     /\ ~in_arena_fight
     /\ arena_s = "FIGHT_OVER" /\ arena_state = "DONE"

C25_Witness ==
  /\ op = "feed" /\ at_dispatch.arena_s = "FIGHTING" /\ at_entry.in_arena_fight
  /\ buf = <<LKingdom>> /\ fed = << "Arena" >>
  /\ sent = <<>> /\ ~in_arena_fight /\ arena_s = "FIGHT_OVER" /\ arena_state = "DONE"

\* ---- C26
\* the transitions of the three machines, as (run-state, sub-state) pairs
Move(a, x, b, y) == << <<a, x>>, <<b, y>> >>

BootEdges ==
  { Move("ACTIVE", "START", "ACTIVE", "LOAD_MENU"),
    Move("ACTIVE", "LOAD_MENU", "ACTIVE", "READY"),
    Move("ACTIVE", "LOAD_MENU", "ACTIVE", "HANDLE_LOAD_EXIT_ERROR"),
    Move("ACTIVE", "HANDLE_LOAD_EXIT_ERROR", "ACTIVE", "WAIT_FOR_MAIN_MENU_AFTER_ERROR"),
    Move("ACTIVE", "WAIT_FOR_MAIN_MENU_AFTER_ERROR", "ACTIVE", "ORIGIN"),
    Move("ACTIVE", "ORIGIN", "ACTIVE", "CAPTURE_CONDITIONS"),
    Move("ACTIVE", "CAPTURE_CONDITIONS", "ACTIVE", "SKIP_CEREMONY"),
    Move("ACTIVE", "SKIP_CEREMONY", "ACTIVE", "SKIP_CROLL"),
    Move("ACTIVE", "SKIP_CROLL", "ACTIVE", "SKIP_WAIT"),
    Move("ACTIVE", "SKIP_WAIT", "ACTIVE", "READY"),
    Move("ACTIVE", "READY", "ACTIVE", "CHECK_AUTORECRUIT"),
    Move("ACTIVE", "READY", "DONE", "READY"),
    Move("ACTIVE", "CHECK_AUTORECRUIT", "DONE", "CHECK_AUTORECRUIT") }

SaveEdges ==
  { Move("ACTIVE", "WAIT", "ACTIVE", "EXTRAS"),
    Move("ACTIVE", "EXTRAS", "ACTIVE", "NAME"),
    Move("ACTIVE", "NAME", "ACTIVE", "CONFIRM"),
    Move("ACTIVE", "CONFIRM", "DONE", "CONFIRM"),
    Move("DONE", "CONFIRM", "ACTIVE", "WAIT") }

ArenaEdges ==
  { Move("WAITING", "WAITING_FOR_FIGHT", "ACTIVE", "FIGHTING"),
    Move("ACTIVE", "FIGHTING", "DONE", "FIGHT_OVER") }

AtMostOne(edges, a, x, b, y) == (a = b /\ x = y) \/ Move(a, x, b, y) \in edges

\* C26: a call of a task's feed leaves the task where it was or one
\* transition further: BootTask, SaveTask and ArenaTask, SaveTask also when
\* it is called Done with needs_save set.
C26_OneTransition ==
  /\ "Boot" \in Range(fed) =>
        AtMostOne(BootEdges, at_dispatch.boot_state, at_dispatch.boot_s, boot_state, boot_s)
  /\ "Save" \in Range(fed) =>
        AtMostOne(SaveEdges, at_dispatch.save_state, at_dispatch.save_s, save_state, save_s)
  /\ "Arena" \in Range(fed) =>
        AtMostOne(ArenaEdges, at_dispatch.arena_state, at_dispatch.arena_s, arena_state, arena_s)

\* ---- C27
\* C27: after SaveTask.reset SaveTask is Active in WAIT and nothing else has
\* changed; after ArenaTask.reset ArenaTask is Waiting in WAITING_FOR_FIGHT,
\* in_arena_fight is unset and nothing else has changed; a reset called
\* straight after the same reset changes nothing at all.
C27_ResetIdempotent ==
  /\ op \in {"SaveTask.reset", "SaveTask.reset again"} =>
        Now = [at_entry EXCEPT !.save_state = "ACTIVE", !.save_s = "WAIT"]
  /\ op \in {"ArenaTask.reset", "ArenaTask.reset again"} =>
        Now = [at_entry EXCEPT !.arena_state = "WAITING",
                               !.arena_s = "WAITING_FOR_FIGHT",
                               !.in_arena_fight = FALSE]
  /\ op \in {"SaveTask.reset again", "ArenaTask.reset again"} => Now = at_entry

\* ArenaTask.reset called twice in a row
C27_Witness ==
  /\ op = "ArenaTask.reset again"
  /\ arena_state = "WAITING" /\ arena_s = "WAITING_FOR_FIGHT" /\ ~in_arena_fight

\* ---- C28
\* C28: every command a call of CoreAgent.feed sent was sent by a helper
\* that sleeps INPUT_DELAY after it.
C28_InputDelay ==
  \A i \in 1..Len(sent) : sent[i].delay

\* ---- C29
\* C29: while ready_for_llm is true SaveTask is not in EXTRAS, NAME or
\* CONFIRM with its sequence under way, and ArenaTask is not in FIGHTING.
C29_FreePlay ==
  ready_for_llm =>
     /\ ~(save_state = "ACTIVE" /\ save_s \in {"EXTRAS", "NAME", "CONFIRM"})
     /\ arena_s # "FIGHTING"

\* ---- C30
\* the task whose sink call raised: the last one fed
Raising == IF fed = <<>> THEN "Core" ELSE fed[Len(fed)]

\* C30: a call of CoreAgent.feed that ended with a sink error, so that not
\* all of the raising task's transition has taken place, has left none of
\* it: the task sent no command, and its run-state, its sub-state and the
\* Session Context fields it writes are as they were at dispatch.
C30_AllOrNothing ==
  raised =>
     /\ Of(sent, Raising) = <<>>
     /\ Raising = "Boot" =>
           /\ boot_state = at_dispatch.boot_state /\ boot_s = at_dispatch.boot_s
           /\ loaded_save = at_dispatch.loaded_save
           /\ in_kingdom_menu = at_dispatch.in_kingdom_menu
           /\ needs_save = at_dispatch.needs_save
           /\ intro_origin_text = at_dispatch.intro_origin_text
           /\ intro_conditions_text = at_dispatch.intro_conditions_text
     /\ Raising = "Save" =>
           /\ save_state = at_dispatch.save_state /\ save_s = at_dispatch.save_s
           /\ needs_save = at_dispatch.needs_save
     /\ Raising = "Arena" =>
           /\ arena_state = at_dispatch.arena_state /\ arena_s = at_dispatch.arena_s
           /\ in_arena_fight = at_dispatch.in_arena_fight

\* ---- C31
\* C31: a call of CoreAgent.feed in which a sink call raised ends with the
\* error: the commands handed to the sink are those delivered and then the
\* failed one, handed over once and last.  A call that returned normally
\* delivered every command it handed over.
C31_SinkFailure ==
  op = "feed" =>
     /\ raised  => /\ Len(tried) = Len(sent) + 1
                   /\ SubSeq(tried, 1, Len(sent)) = sent
     /\ ~raised => tried = sent

\* the third command of a transition failed after two were delivered
C31_Witness ==
  /\ op = "feed" /\ raised
  /\ Len(sent) = 2 /\ Len(tried) = 3
  /\ tried[3] \notin Range(sent)

\* ---- C32
\* the snapshots BootTask's sub-state waits for
Awaited(st) ==
  CASE st \in {"START", "WAIT_FOR_MAIN_MENU_AFTER_ERROR"} -> {t \in Screens : MAIN_MENU_RE(t)}
    [] st = "LOAD_MENU"     -> {t \in Screens : LOAD_MENU_RE(t)}
    [] st \in {"HANDLE_LOAD_EXIT_ERROR", "ORIGIN", "CAPTURE_CONDITIONS", "SKIP_WAIT"}
                            -> {t \in Screens : PRESS_ANY_KEY_RE(t)}
    [] st = "SKIP_CEREMONY" -> {t \in Screens : Has(t, LCeremony)}
    [] st = "SKIP_CROLL"    -> {t \in Screens : Has(t, LCroll)}
    [] st = "READY"         -> {t \in Screens : KINGDOM_MENU_RE(t)}
    [] st = "CHECK_AUTORECRUIT" ->
         {t \in Screens : AUTORECRUIT_SETUP_PROMPT_RE(t) \/ AUTORECRUIT_ALREADY_ON_RE(t)}

\* CoreAgent.feed of a snapshot the Active BootTask waits for
FeedAwaited ==
  /\ boot_state = "ACTIVE"
  /\ \E txt \in Awaited(boot_s) : FeedScreen(txt)

\* The screen source shows, sooner or later, a screen BootTask's sub-state
\* waits for while BootTask is in that sub-state.
SpecAwaited == Spec /\ WF_vars(FeedAwaited)

\* C32: when every sub-state of BootTask is fed in the end a screen it waits
\* for, BootTask becomes Done.
C32_BootTerminates == <>(boot_state = "DONE")

\* the call that completed the boot of a new game
C32_Witness ==
  /\ op = "feed" /\ at_entry.boot_state = "ACTIVE" /\ at_entry.boot_s = "READY"
  /\ KINGDOM_MENU_RE(buf) /\ boot_state = "DONE" /\ ~loaded_save

C34_OneToolCallPerTurn ==
  op = "LLMManager.step" =>
     /\ llm.asked <= MAX_RETRIES
     /\ llm.executed <= 1
     /\ llm.executed = 1 => llm.reply = "one"
     /\ llm.turn = llm.before + 1

\* ---- C35
\* C35: in every state between two calls in_arena_fight is set exactly when
\* ArenaTask is in FIGHTING, and exactly when ArenaTask is Active.
C35_ArenaFlag ==
  /\ in_arena_fight <=> arena_s = "FIGHTING"
  /\ in_arena_fight <=> arena_state = "ACTIVE"

\* a fight under way, and a fight that is over
C35_Witness ==
  /\ op = "feed" /\ in_arena_fight /\ arena_s = "FIGHTING" /\ arena_state = "ACTIVE"
  /\ at_entry.in_arena_fight /\ PRESS_ANY_KEY_RE(buf)

\* ---- C36
\* C36: in every reachable state where BootTask is Active, in_arena_fight and
\* needs_save are false, SaveTask is in WAIT and ArenaTask is in
\* WAITING_FOR_FIGHT.
C36_BootAlone ==
  boot_state = "ACTIVE" =>
     /\ ~in_arena_fight
     /\ ~needs_save
     /\ save_s = "WAIT"
     /\ arena_s = "WAITING_FOR_FIGHT"

\* BootTask, about to finish, was fed the first screen of a fight
C36_Witness ==
  /\ op = "feed" /\ boot_state = "ACTIVE" /\ boot_s = "READY"
  /\ ARENA_FIGHT_START_RE(FirstLine(buf))
  /\ ~in_arena_fight /\ arena_s = "WAITING_FOR_FIGHT"

\* ---- C37
\* C37: no call of CoreAgent.feed that begins with in_arena_fight set sends
\* number 13, the command that opens the Extras menu.
C37_NoSaveInFight ==
  (op = "feed" /\ at_entry.in_arena_fight) =>
     \A i \in 1..Len(sent) : sent[i] # Number("Save", 13)

\* ---- C38
\* the tasks that sent a command in the last call
Emitters == { sent[i].task : i \in 1..Len(sent) }

C39_LeavesWait ==
  op = "feed" =>
     /\ ( \/ at_dispatch.save_s = "WAIT" /\ save_s # "WAIT"
          \/ Number("Save", 13) \in Range(sent) )
        => /\ KINGDOM_MENU_RE(buf)
           /\ at_entry.needs_save /\ needs_save
           /\ at_dispatch.save_s = "WAIT" /\ save_s = "EXTRAS"
           /\ Of(sent, "Save") = << Number("Save", 13) >>
     /\ ( at_dispatch.save_s = "WAIT" /\ (~at_entry.needs_save \/ ~KINGDOM_MENU_RE(buf)) )
        => /\ save_s = "WAIT"
           /\ Of(sent, "Save") = <<>>

\* a pending save waited through a screen that is not the kingdom menu, and
\* started on the kingdom menu
C39_Witness ==
  /\ op = "feed" /\ KINGDOM_MENU_RE(buf) /\ at_entry.needs_save
  /\ ~at_entry.in_kingdom_menu
  /\ at_dispatch.save_s = "WAIT" /\ save_s = "EXTRAS"
  /\ sent = << Number("Save", 13) >>

====
